---- MODULE Spec2Model ----
(***************************************************************************)
(* subfolder_list_fixed.py: list the immediate subdirectories of a         *)
(* directory into an output file, then create an empty trigger file.       *)
(*                                                                         *)
(* A string is a sequence of one-character strings.  The filesystem maps   *)
(* a normalised relative path string (no trailing "/") to a node; the      *)
(* empty string is the key of the current working directory.               *)
(***************************************************************************)
EXTENDS Naturals, Sequences, FiniteSets, TLC

VARIABLES fs, args, pc, status, exitcode, items, subdirs, buf,
          run, fs0, enumerated, checked

\* fs          the filesystem: path |-> node, for the paths that exist
\* args        per instance, the parsed --directory, --out-file, --trigger-file
\* pc, status  per instance, the statement of main it is at, and whether it runs
\* exitcode    per instance, the exit status once it has exited
\* items       per instance, the entries os.listdir returned that are still to check
\* subdirs     per instance, the list main builds
\* buf         per instance, the text held by the open stream until it is closed
\* run         per instance, the number of the current run
\* fs0         the filesystem as it was when the current run started
\* enumerated  per instance, the names os.listdir returned in this run
\* checked     per instance, the names os.path.isdir accepted, in order
vars == <<fs, args, pc, status, exitcode, items, subdirs, buf,
          run, fs0, enumerated, checked>>

\* ------------------------------------------------------------- bounds

\* How many times in a row the program is run with the same arguments.
MaxRuns == 2

\* ------------------------------------------------------------ strings

\* The characters in use, in ascending code point order.
Alphabet == <<"\n", "/", "B", "a", "b", "d", "g", "o", "t", "x">>

Ord(c) == CHOOSE i \in 1..Len(Alphabet) : Alphabet[i] = c

Min(a, b) == IF a < b THEN a ELSE b

Range(l) == {l[i] : i \in 1..Len(l)}

\* s < t, as Python compares str: code point by code point, a proper prefix first.
StrLess(s, t) ==
    \E i \in 1..(Min(Len(s), Len(t)) + 1) :
        /\ \A j \in 1..(i - 1) : s[j] = t[j]
        /\ \/ i = Len(s) + 1 /\ i <= Len(t)
           \/ i <= Len(s) /\ i <= Len(t) /\ Ord(s[i]) < Ord(t[i])

\* str.rfind("/") + 1: the index of the last "/", 0 when there is none.
RFindSlash(p) ==
    LET S == {i \in 1..Len(p) : p[i] = "/"}
    IN  IF S = {} THEN 0 ELSE CHOOSE i \in S : \A j \in S : j <= i

\* str.rstrip("/")
RECURSIVE RStripSlash(_)
RStripSlash(p) ==
    IF p # <<>> /\ p[Len(p)] = "/" THEN RStripSlash(SubSeq(p, 1, Len(p) - 1)) ELSE p

\* posixpath.split: <<head, tail>>
PathSplit(p) ==
    LET i    == RFindSlash(p)
        head == SubSeq(p, 1, i)
        tail == SubSeq(p, i + 1, Len(p))
    IN  <<IF RStripSlash(head) # <<>> THEN RStripSlash(head) ELSE head, tail>>

\* posixpath.dirname
DirName(p) == PathSplit(p)[1]

\* posixpath.join(a, b) for a relative b
PathJoin(a, b) ==
    IF a = <<>> \/ a[Len(a)] = "/" THEN a \o b ELSE a \o <<"/">> \o b

\* Mutant of Sorted: the list is written in the order it was built.
Unsorted(l) == l

\* sorted(): insertion sort of a list of strings, ascending
RECURSIVE Insert(_, _)
Insert(x, l) ==
    IF l = <<>> THEN <<x>>
    ELSE IF StrLess(x, Head(l)) THEN <<x>> \o l
    ELSE <<Head(l)>> \o Insert(x, Tail(l))

RECURSIVE Sorted(_)
Sorted(l) == IF l = <<>> THEN <<>> ELSE Insert(Head(l), Sorted(Tail(l)))

\* Mutant of JoinLines: every line, the last one too, ends with "\n".
RECURSIVE JoinLinesTrailing(_)
JoinLinesTrailing(l) ==
    IF l = <<>> THEN <<>> ELSE l[1] \o <<"\n">> \o JoinLinesTrailing(Tail(l))

\* "\n".join(l)
RECURSIVE JoinLines(_)
JoinLines(l) ==
    IF l = <<>> THEN <<>>
    ELSE IF Len(l) = 1 THEN l[1]
    ELSE l[1] \o <<"\n">> \o JoinLines(Tail(l))

\* --------------------------------------------------------- filesystem

NoNode == [kind |-> "none", data |-> <<>>]
DirNode == [kind |-> "dir", data |-> <<>>]
FileNode(d) == [kind |-> "file", data |-> d]

\* The kernel's resolution of a path string: trailing "/" dropped.
Key(p) == RStripSlash(p)

Node(f, k) ==
    IF k = <<>> THEN DirNode ELSE IF k \in DOMAIN f THEN f[k] ELSE NoNode

\* os.path.isdir: False for "" and for anything that is not a directory
IsDir(f, p) == p # <<>> /\ Node(f, Key(p)).kind = "dir"

\* os.path.exists
Exists(f, p) ==
    /\ p # <<>>
    /\ Node(f, Key(p)).kind # "none"
    /\ (p[Len(p)] = "/" => Node(f, Key(p)).kind = "dir")

Ok(f) == [err |-> "", fs |-> f]
Fail(e, f) == [err |-> e, fs |-> f]

\* os.mkdir(p)
MkDir(f, p) ==
    IF p = <<>> THEN Fail("FileNotFoundError", f)
    ELSE IF Node(f, Key(p)).kind # "none" THEN Fail("FileExistsError", f)
    ELSE IF Node(f, DirName(Key(p))).kind = "none" THEN Fail("FileNotFoundError", f)
    ELSE IF Node(f, DirName(Key(p))).kind = "file" THEN Fail("NotADirectoryError", f)
    ELSE Ok((Key(p) :> DirNode) @@ f)

\* os.makedirs(name, exist_ok=True)
RECURSIVE MakeDirs(_, _)
MakeDirs(f, name) ==
    LET s1   == PathSplit(name)
        s2   == IF s1[2] = <<>> THEN PathSplit(s1[1]) ELSE s1
        head == s2[1]
        tail == s2[2]
        up   == IF head # <<>> /\ tail # <<>> /\ ~Exists(f, head)
                THEN MakeDirs(f, head) ELSE Ok(f)
    IN  IF up.err \notin {"", "FileExistsError"} THEN up
        ELSE LET m == MkDir(up.fs, name)
             IN  IF m.err = "" \/ ~IsDir(up.fs, name) THEN m ELSE Ok(up.fs)

\* os.listdir(p): the names of the entries of directory p, as a set
Entries(f, p) == {PathSplit(k)[2] : k \in {j \in DOMAIN f : DirName(j) = Key(p)}}

\* The orders in which the filesystem may enumerate a set of names.
Orders(S) ==
    {s \in [1..Cardinality(S) -> S] : \A i, j \in 1..Cardinality(S) : s[i] = s[j] => i = j}

\* Mutant of OpenW: an existing file is opened without being truncated.
OpenKeep(f, p) ==
    IF p = <<>> THEN Fail("FileNotFoundError", f)
    ELSE IF p[Len(p)] = "/" \/ Node(f, p).kind = "dir" THEN Fail("IsADirectoryError", f)
    ELSE IF Node(f, DirName(p)).kind = "none" THEN Fail("FileNotFoundError", f)
    ELSE IF Node(f, DirName(p)).kind = "file" THEN Fail("NotADirectoryError", f)
    ELSE IF Node(f, p).kind = "file" THEN Ok(f)
    ELSE Ok((p :> FileNode(<<>>)) @@ f)

\* open(p, 'w'): create the file or truncate it to zero bytes
OpenW(f, p) ==
    IF p = <<>> THEN Fail("FileNotFoundError", f)
    ELSE IF p[Len(p)] = "/" \/ Node(f, p).kind = "dir" THEN Fail("IsADirectoryError", f)
    ELSE IF Node(f, DirName(p)).kind = "none" THEN Fail("FileNotFoundError", f)
    ELSE IF Node(f, DirName(p)).kind = "file" THEN Fail("NotADirectoryError", f)
    ELSE Ok((p :> FileNode(<<>>)) @@ f)

\* Mutant of Flush: the text is written at the end of the file, as in append mode.
FlushAtEnd(f, p, text) ==
    IF Node(f, p).kind # "file" THEN f
    ELSE [f EXCEPT ![p] = FileNode(f[p].data \o text)]

\* The flush of a stream opened at offset 0: text overwrites the file's first bytes.
Flush(f, p, text) ==
    IF Node(f, p).kind # "file" THEN f
    ELSE LET old == f[p].data
         IN  [f EXCEPT ![p] = FileNode(text \o SubSeq(old, Len(text) + 1, Len(old)))]

\* ------------------------------------------------------------- main()

Procs == {1, 2}

Running(p) == status[p] = "running"

\* Mutant of Raise: the exception is swallowed and main goes on with its next step.
RaiseIgnored(p) ==
    /\ pc' = [pc EXCEPT ![p] =
                 CASE pc[p] = "mk_out" -> "mk_trig"
                   [] pc[p] = "mk_trig" -> "isdir"
                   [] pc[p] = "listdir" -> "open_out"
                   [] pc[p] = "open_out" -> "open_trig"
                   [] OTHER -> "end"]
    /\ UNCHANGED <<status, exitcode>>

\* An uncaught exception: the interpreter prints the traceback and exits with status 1.
Raise(p) ==
    /\ status' = [status EXCEPT ![p] = "exited"]
    /\ exitcode' = [exitcode EXCEPT ![p] = 1]
    /\ pc' = pc

Goto(p, l) ==
    /\ pc' = [pc EXCEPT ![p] = l]
    /\ UNCHANGED <<status, exitcode>>

\* os.makedirs(os.path.dirname(out_file), exist_ok=True)
MkOutDir(p) ==
    /\ Running(p) /\ pc[p] = "mk_out"
    /\ LET r == MakeDirs(fs, DirName(args[p].out_file))
       IN  /\ fs' = r.fs
           /\ IF r.err = "" THEN Goto(p, "mk_trig") ELSE Raise(p)
    /\ UNCHANGED <<args, items, subdirs, buf, run, fs0, enumerated, checked>>

\* if trigger_file: os.makedirs(os.path.dirname(trigger_file), exist_ok=True)
MkTrigDir(p) ==
    /\ Running(p) /\ pc[p] = "mk_trig"
    /\ LET r == IF args[p].trigger_file # <<>>
                THEN MakeDirs(fs, DirName(args[p].trigger_file)) ELSE Ok(fs)
       IN  /\ fs' = r.fs
           /\ IF r.err = "" THEN Goto(p, "isdir") ELSE Raise(p)
    /\ UNCHANGED <<args, items, subdirs, buf, run, fs0, enumerated, checked>>

\* subdirs = []; if os.path.isdir(base_dir):
IsDirBase(p) ==
    /\ Running(p) /\ pc[p] = "isdir"
    /\ subdirs' = [subdirs EXCEPT ![p] = <<>>]
    /\ Goto(p, IF IsDir(fs, args[p].directory) THEN "listdir" ELSE "open_out")
    /\ UNCHANGED <<fs, args, items, buf, run, fs0, enumerated, checked>>

\* Mutant of ListDir: a target that is no longer a directory is taken as empty.
ListDirTolerant(p) ==
    /\ Running(p) /\ pc[p] = "listdir"
    /\ \E order \in Orders(IF IsDir(fs, args[p].directory)
                           THEN Entries(fs, args[p].directory) ELSE {}) :
          /\ items' = [items EXCEPT ![p] = order]
          /\ enumerated' = [enumerated EXCEPT ![p] = Range(order)]
          /\ Goto(p, IF order = <<>> THEN "open_out" ELSE "scan")
    /\ UNCHANGED <<fs, args, subdirs, buf, run, fs0, checked>>

\* for item in os.listdir(base_dir): the entries, in the order the filesystem gives
ListDir(p) ==
    /\ Running(p) /\ pc[p] = "listdir"
    /\ IF IsDir(fs, args[p].directory)
       THEN \E order \in Orders(Entries(fs, args[p].directory)) :
                /\ items' = [items EXCEPT ![p] = order]
                /\ enumerated' = [enumerated EXCEPT ![p] = Entries(fs, args[p].directory)]
                /\ Goto(p, IF order = <<>> THEN "open_out" ELSE "scan")
       ELSE /\ Raise(p)
            /\ UNCHANGED <<items, enumerated>>
    /\ UNCHANGED <<fs, args, subdirs, buf, run, fs0, checked>>

\* item_path = os.path.join(base_dir, item)
\* if os.path.isdir(item_path): subdirs.append(os.path.join(base_dir, item))
ScanItem(p) ==
    /\ Running(p) /\ pc[p] = "scan" /\ items[p] # <<>>
    /\ LET item      == Head(items[p])
           item_path == PathJoin(args[p].directory, item)
       IN  IF IsDir(fs, item_path)
           THEN /\ subdirs' = [subdirs EXCEPT ![p] = Append(@, PathJoin(args[p].directory, item))]
                /\ checked' = [checked EXCEPT ![p] = Append(@, item)]
           ELSE UNCHANGED <<subdirs, checked>>
    /\ items' = [items EXCEPT ![p] = Tail(@)]
    /\ Goto(p, IF Tail(items[p]) = <<>> THEN "open_out" ELSE "scan")
    /\ UNCHANGED <<fs, args, buf, run, fs0, enumerated>>

\* with open(out_file, 'w') as f:
OpenOut(p) ==
    /\ Running(p) /\ pc[p] = "open_out"
    /\ LET r == OpenW(fs, args[p].out_file)
       IN  /\ fs' = r.fs
           /\ IF r.err = "" THEN Goto(p, "write_out") ELSE Raise(p)
    /\ UNCHANGED <<args, items, subdirs, buf, run, fs0, enumerated, checked>>

\* f.write('\n'.join(sorted(subdirs))): the text goes to the stream's buffer
WriteOut(p) ==
    /\ Running(p) /\ pc[p] = "write_out"
    /\ buf' = [buf EXCEPT ![p] = JoinLines(Sorted(subdirs[p]))]
    /\ Goto(p, "close_out")
    /\ UNCHANGED <<fs, args, items, subdirs, run, fs0, enumerated, checked>>

\* Mutant of CloseOut: the stream is dropped with its buffer unwritten.
CloseOutNoFlush(p) ==
    /\ Running(p) /\ pc[p] = "close_out"
    /\ buf' = [buf EXCEPT ![p] = <<>>]
    /\ Goto(p, "open_trig")
    /\ UNCHANGED <<fs, args, items, subdirs, run, fs0, enumerated, checked>>

\* leaving the with block closes the stream, which flushes its buffer to the file
CloseOut(p) ==
    /\ Running(p) /\ pc[p] = "close_out"
    /\ fs' = Flush(fs, args[p].out_file, buf[p])
    /\ buf' = [buf EXCEPT ![p] = <<>>]
    /\ Goto(p, "open_trig")
    /\ UNCHANGED <<args, items, subdirs, run, fs0, enumerated, checked>>

\* Mutant of OpenTrig: main returns without creating the trigger file.
OpenTrigSkipped(p) ==
    /\ Running(p) /\ pc[p] = "open_trig"
    /\ pc' = [pc EXCEPT ![p] = "end"]
    /\ status' = [status EXCEPT ![p] = "exited"]
    /\ exitcode' = [exitcode EXCEPT ![p] = 0]
    /\ UNCHANGED <<fs, args, items, subdirs, buf, run, fs0, enumerated, checked>>

\* if trigger_file: with open(trigger_file, 'w') as f:    (else main returns)
OpenTrig(p) ==
    /\ Running(p) /\ pc[p] = "open_trig"
    /\ IF args[p].trigger_file = <<>>
       THEN /\ fs' = fs
            /\ pc' = [pc EXCEPT ![p] = "end"]
            /\ status' = [status EXCEPT ![p] = "exited"]
            /\ exitcode' = [exitcode EXCEPT ![p] = 0]
       ELSE LET r == OpenW(fs, args[p].trigger_file)
            IN  /\ fs' = r.fs
                /\ IF r.err = "" THEN Goto(p, "write_trig") ELSE Raise(p)
    /\ UNCHANGED <<args, items, subdirs, buf, run, fs0, enumerated, checked>>

\* f.write("")
WriteTrig(p) ==
    /\ Running(p) /\ pc[p] = "write_trig"
    /\ buf' = [buf EXCEPT ![p] = <<>>]
    /\ Goto(p, "close_trig")
    /\ UNCHANGED <<fs, args, items, subdirs, run, fs0, enumerated, checked>>

\* the stream is closed and main returns: the process exits with status 0
CloseTrig(p) ==
    /\ Running(p) /\ pc[p] = "close_trig"
    /\ fs' = Flush(fs, args[p].trigger_file, buf[p])
    /\ buf' = [buf EXCEPT ![p] = <<>>]
    /\ pc' = [pc EXCEPT ![p] = "end"]
    /\ status' = [status EXCEPT ![p] = "exited"]
    /\ exitcode' = [exitcode EXCEPT ![p] = 0]
    /\ UNCHANGED <<args, items, subdirs, run, fs0, enumerated, checked>>

\* The program is started again with the same arguments.
Rerun(p) ==
    /\ status[p] = "exited" /\ run[p] < MaxRuns
    /\ run' = [run EXCEPT ![p] = @ + 1]
    /\ fs0' = fs
    /\ pc' = [pc EXCEPT ![p] = "mk_out"]
    /\ status' = [status EXCEPT ![p] = "running"]
    /\ exitcode' = [exitcode EXCEPT ![p] = 0]
    /\ items' = [items EXCEPT ![p] = <<>>]
    /\ subdirs' = [subdirs EXCEPT ![p] = <<>>]
    /\ buf' = [buf EXCEPT ![p] = <<>>]
    /\ enumerated' = [enumerated EXCEPT ![p] = {}]
    /\ checked' = [checked EXCEPT ![p] = <<>>]
    /\ UNCHANGED <<fs, args>>

\* ------------------------------------------------- concurrent changes

\* k is path j or lies underneath it
Under(k, j) ==
    k = j \/ (Len(k) > Len(j) /\ SubSeq(k, 1, Len(j) + 1) = j \o <<"/">>)

\* The names another process gives to the entries it creates in the target.
EnvNames == {<<"a">>, <<"B">>}

\* The window of the scan: after the target's os.path.isdir, until the last child's.
Scanning(p) == Running(p) /\ pc[p] \in {"listdir", "scan"}

\* Another process creates the target directory, or a file or directory in it.
EnvCreate ==
    /\ Scanning(1)
    /\ \E k \in {Key(args[1].directory)}
                \cup {PathJoin(Key(args[1].directory), n) : n \in EnvNames},
          node \in {DirNode, FileNode(<<>>)} :
          /\ Node(fs, k).kind = "none"
          /\ Node(fs, DirName(k)).kind = "dir"
          /\ fs' = (k :> node) @@ fs
    /\ UNCHANGED <<args, pc, status, exitcode, items, subdirs, buf, run, fs0,
                   enumerated, checked>>

\* Another process removes the target directory or one of its entries, with all below it.
EnvRemove ==
    /\ Scanning(1)
    /\ \E k \in DOMAIN fs :
          /\ Under(k, Key(args[1].directory))
          /\ DirName(k) \in {Key(args[1].directory), DirName(Key(args[1].directory))}
          /\ fs' = [j \in {i \in DOMAIN fs : ~Under(i, k)} |-> fs[j]]
    /\ UNCHANGED <<args, pc, status, exitcode, items, subdirs, buf, run, fs0,
                   enumerated, checked>>

\* ------------------------------------------------------ initial states

\* The content of a file left by somebody else before the run.
Stale == <<"x">>

TreeKeys ==
    { <<"t">>, <<"t", "/", "a">>, <<"t", "/", "B">>, <<"t", "/", "a", "b">>,
      <<"t", "/", "a", "/", "o">>, <<"d">>, <<"d", "/", "o">>, <<"d", "/", "g">> }

\* An entry exists only in a directory.
WellFormed(k) ==
    \A key \in DOMAIN k :
        k[key] # "none" => (DirName(key) = <<>> \/ k[DirName(key)] = "dir")

FileSystems ==
    { [key \in {x \in TreeKeys : k[x] # "none"} |->
           IF k[key] = "dir" THEN DirNode ELSE FileNode(Stale)] :
      k \in {k \in [TreeKeys -> {"none", "dir", "file"}] :
                WellFormed(k) /\ k[<<"t", "/", "a", "b">>] # "file"} }

Directories == { <<"t">>, <<"t", "/">> }
OutFiles == { <<"o">>, <<"d", "/", "o">>, <<"t", "/", "a", "/", "o">> }
TriggerFiles == { <<>>, <<"d", "/", "g">>, <<"d", "/", "o">> }

ArgTriples == [directory : Directories, out_file : OutFiles, trigger_file : TriggerFiles]

Start(f, a, st) ==
    /\ fs = f
    /\ fs0 = f
    /\ args = a
    /\ pc = [p \in Procs |-> "mk_out"]
    /\ status = st
    /\ exitcode = [p \in Procs |-> 0]
    /\ items = [p \in Procs |-> <<>>]
    /\ subdirs = [p \in Procs |-> <<>>]
    /\ buf = [p \in Procs |-> <<>>]
    /\ run = [p \in Procs |-> 1]
    /\ enumerated = [p \in Procs |-> {}]
    /\ checked = [p \in Procs |-> <<>>]

\* One instance, started on any filesystem with any arguments.
Init ==
    \E f \in FileSystems, a \in ArgTriples :
        Start(f, [p \in Procs |-> a], [p \in Procs |-> IF p = 1 THEN "running" ELSE "idle"])

\* Two instances started together on the same out-file and trigger-file, one on
\* directory t and one on directory t/a.
InitRace ==
    \E f \in FileSystems :
        /\ IsDir(f, <<"t", "/", "a">>)
        /\ Node(f, <<"d", "/", "o">>).kind # "dir"
        /\ Node(f, <<"d", "/", "g">>).kind # "dir"
        /\ Start(f,
                 [p \in Procs |->
                     [directory |-> IF p = 1 THEN <<"t">> ELSE <<"t", "/", "a">>,
                      out_file |-> <<"d", "/", "o">>,
                      trigger_file |-> <<"d", "/", "g">>]],
                 [p \in Procs |-> "running"])

Main(p) ==
    \/ MkOutDir(p)
    \/ MkTrigDir(p)
    \/ IsDirBase(p)
    \/ ListDir(p)
    \/ ScanItem(p)
    \/ OpenOut(p)
    \/ WriteOut(p)
    \/ CloseOut(p)
    \/ OpenTrig(p)
    \/ WriteTrig(p)
    \/ CloseTrig(p)

Next == \E p \in Procs : Main(p) \/ Rerun(p)

Spec == Init /\ [][Next]_vars

NextRace == \E p \in Procs : Main(p)

SpecRace == InitRace /\ [][NextRace]_vars

NextEnv == Main(1) \/ EnvCreate \/ EnvRemove

\* One instance, started on some filesystem, while another process changes the target.
InitEnv ==
    \E f \in FileSystems, a \in ArgTriples :
        /\ Node(f, <<"d">>).kind = "none"
        /\ a.out_file # <<"o">> /\ a.trigger_file = <<"d", "/", "g">>
        /\ Start(f, [p \in Procs |-> a], [p \in Procs |-> IF p = 1 THEN "running" ELSE "idle"])

SpecEnv == InitEnv /\ [][NextEnv]_vars

\* ---------------------------------------------- vocabulary of the claims

Ascending(l) == \A i \in 1..(Len(l) - 1) : StrLess(l[i], l[i + 1])

\* The lines of a text: the pieces between its "\n" characters.
RECURSIVE SplitLines(_)
SplitLines(text) ==
    LET N == {i \in 1..Len(text) : text[i] = "\n"}
    IN  IF N = {} THEN <<text>>
        ELSE LET i == CHOOSE i \in N : \A j \in N : i <= j
             IN  <<SubSeq(text, 1, i - 1)>> \o SplitLines(SubSeq(text, i + 1, Len(text)))

\* text lists exactly the paths of S: one per line, ascending, no trailing newline
IsListing(text, S) ==
    IF S = {} THEN text = <<>>
    ELSE /\ Ascending(SplitLines(text))
         /\ Range(SplitLines(text)) = S
         /\ Len(SplitLines(text)) = Cardinality(S)

\* join(dir, name) for every entry of directory dir that is a directory in f
SubdirPaths(f, dir) ==
    IF ~IsDir(f, dir) THEN {}
    ELSE {PathJoin(dir, PathSplit(k)[2]) :
             k \in {j \in DOMAIN f : DirName(j) = Key(dir) /\ f[j].kind = "dir"}}

\* The one text that lists S.
TextOf(S) == JoinLines(CHOOSE l \in Orders(S) : Ascending(l))

\* The file at path p, if there is one.
FileAt(f, p) == IF Node(f, Key(p)).kind = "file" THEN Node(f, Key(p)) ELSE NoNode

Steps ==
    <<"mk_out", "mk_trig", "isdir", "listdir", "scan", "open_out", "write_out",
      "close_out", "open_trig", "write_trig", "close_trig", "end">>

Rank(l) == CHOOSE i \in 1..Len(Steps) : Steps[i] = l

Succeeded(p) == status[p] = "exited" /\ exitcode[p] = 0
Failed(p) == status[p] = "exited" /\ exitcode[p] # 0

\* ------------------------------------------------------------- claims

\* The arguments of instance 1, under the names main gives them.
base_dir == args[1].directory
out_file == args[1].out_file
trigger_file == args[1].trigger_file

\* C1, as stated: after a run that completes successfully the output file lists
\* exactly the immediate subdirectories of the target, sorted, one join(target, name)
\* per line with no trailing newline, and the trigger file exists with zero bytes:
\* for every argument triple.
C1_ListingAndTriggerForEveryTriple ==
    Succeeded(1) =>
        /\ Node(fs, out_file).kind = "file"
        /\ IsListing(Node(fs, out_file).data, SubdirPaths(fs, base_dir))
        /\ trigger_file # <<>> /\ Node(fs, trigger_file) = FileNode(<<>>)

\* C1, amended: the same, for every argument triple whose trigger-file path is
\* non-empty and is not the out-file path.
C1_ListingAndTrigger ==
    (Succeeded(1) /\ trigger_file # <<>> /\ Key(trigger_file) # Key(out_file)) =>
        /\ Node(fs, out_file).kind = "file"
        /\ IsListing(Node(fs, out_file).data, SubdirPaths(fs, base_dir))
        /\ Node(fs, trigger_file) = FileNode(<<>>)

\* A successful run that listed two subdirectories the filesystem enumerated in
\* descending order, over stale output and trigger files.
C1_Witness ==
    /\ Succeeded(1) /\ trigger_file # <<>> /\ Key(trigger_file) # Key(out_file)
    /\ Len(subdirs[1]) >= 2 /\ StrLess(subdirs[1][2], subdirs[1][1])
    /\ Node(fs0, out_file) = FileNode(Stale) /\ Node(fs0, trigger_file) = FileNode(Stale)

\* C2, as stated: in every state of a run, from any starting filesystem, a trigger
\* file left by an earlier run included, whenever the trigger file exists the
\* output file holds the complete listing.  Stated here for the run that follows
\* an earlier run of the program, with distinct out-file and trigger-file paths.
C2_TriggerMeansComplete ==
    (/\ run[1] > 1 /\ Key(trigger_file) # Key(out_file)
     /\ trigger_file # <<>> /\ Node(fs, trigger_file).kind = "file") =>
        /\ Node(fs, out_file).kind = "file"
        /\ IsListing(Node(fs, out_file).data, SubdirPaths(fs, base_dir))

\* C2, amended: the same, for runs that start with no file at the trigger path and
\* whose trigger-file path is not the out-file path.
C2_FreshTriggerMeansComplete ==
    (/\ trigger_file # <<>> /\ Node(fs, trigger_file).kind = "file"
     /\ Node(fs0, trigger_file).kind # "file" /\ Key(trigger_file) # Key(out_file)) =>
        /\ Node(fs, out_file).kind = "file"
        /\ IsListing(Node(fs, out_file).data, SubdirPaths(fs, base_dir))

\* The trigger file has just been created by this run, after a non-empty listing
\* replaced a stale output file.
C2_Witness ==
    /\ pc[1] = "write_trig" /\ Node(fs0, trigger_file).kind = "none" /\ Key(trigger_file) # Key(out_file)
    /\ Node(fs0, out_file) = FileNode(Stale) /\ subdirs[1] # <<>>

\* C3: a run whose target is not a directory when it starts completes without
\* error, leaves the output file with zero bytes and creates the trigger file, for
\* every out-file and trigger-file path, those underneath the target included.
\* Stated here for the runs that do complete successfully: their output file has
\* zero bytes.
C3_MissingTargetEmptyOutput ==
    (Succeeded(1) /\ ~IsDir(fs0, base_dir)) => Node(fs, out_file) = FileNode(<<>>)

\* C4: step 1 never fails when the parent directory of the out-file already exists
\* (the current working directory, for a path with no directory component), and
\* after a successful run that parent directory exists.
C4_ParentStepNeverFailsOnExistingParent ==
    /\ (Failed(1) /\ pc[1] = "mk_out") => Node(fs0, Key(DirName(out_file))).kind # "dir"
    /\ Succeeded(1) => Node(fs, Key(DirName(out_file))).kind = "dir"

\* C5, as stated: a run exits with status 0 only after the output file and the
\* trigger file have been written, for every value of --trigger-file, the empty
\* string included; a run that fails exits with a non-zero status.
C5_ExitZeroMeansBothWritten ==
    /\ Succeeded(1) =>
          /\ pc[1] = "end"
          /\ Node(fs, out_file).kind = "file"
          /\ Node(fs, trigger_file).kind = "file"
    /\ (status[1] = "exited" /\ pc[1] # "end") => exitcode[1] # 0

\* C5, amended: the same, for every non-empty value of --trigger-file.
C5_ExitZeroMeansBothWrittenNonEmpty ==
    /\ (Succeeded(1) /\ trigger_file # <<>>) =>
          /\ pc[1] = "end"
          /\ Node(fs, out_file).kind = "file"
          /\ Node(fs, trigger_file).kind = "file"
    /\ (status[1] = "exited" /\ pc[1] # "end") => exitcode[1] # 0

\* A run has exited with status 0 having created a trigger file that was not there.
C5_Witness ==
    /\ Succeeded(1) /\ trigger_file # <<>> /\ Key(trigger_file) # Key(out_file)
    /\ Node(fs0, trigger_file).kind = "none" /\ Node(fs, trigger_file).kind = "file"

\* C6: after the second of two runs with the same arguments the output file and
\* the trigger file are what they were after the first run.
C6_Idempotent ==
    (run[1] > 1 /\ status[1] = "exited") =>
        /\ FileAt(fs, out_file) = FileAt(fs0, out_file)
        /\ FileAt(fs, trigger_file) = FileAt(fs0, trigger_file)

\* The second run has completed with the out-file underneath the target, having
\* listed two subdirectories in another order than they were enumerated.
C6_Witness ==
    /\ run[1] = 2 /\ Succeeded(1) /\ Under(Key(out_file), Key(base_dir))
    /\ Len(subdirs[1]) >= 2 /\ subdirs[1] # Sorted(subdirs[1])

\* A step is reached only when the steps before it succeeded; a run that failed
\* before the trigger step left the trigger file as it was, and one that failed
\* creating the trigger file's parent left the output file as it was.
C8_State ==
    /\ Rank(pc[1]) > Rank("mk_out") => IsDir(fs, DirName(out_file))
    /\ (Rank(pc[1]) > Rank("mk_trig") /\ trigger_file # <<>>) => IsDir(fs, DirName(trigger_file))
    /\ Rank(pc[1]) > Rank("open_out") => Node(fs, out_file).kind = "file"
    /\ (Rank(pc[1]) > Rank("open_trig") /\ trigger_file # <<>>) =>
          Node(fs, trigger_file).kind = "file"
    /\ (Failed(1) /\ Rank(pc[1]) <= Rank("close_out")) =>
          FileAt(fs, trigger_file) = FileAt(fs0, trigger_file)
    /\ (Failed(1) /\ Rank(pc[1]) <= Rank("mk_trig")) =>
          FileAt(fs, out_file) = FileAt(fs0, out_file)

\* Within a run the position only moves forward through Steps, and a run that has
\* exited takes no further step and changes nothing.
C8_Step ==
    run' = run =>
        /\ pc'[1] = pc[1] \/ Rank(pc'[1]) > Rank(pc[1])
        /\ status[1] = "exited" => (fs' = fs /\ pc'[1] = pc[1])

C9_Frame ==
    /\ \A k \in DOMAIN fs \cup DOMAIN fs0 :
          \/ Node(fs, k) = Node(fs0, k)
          \/ /\ Node(fs0, k).kind = "none" /\ Node(fs, k) = DirNode
             /\ k \notin {Key(out_file), Key(trigger_file)}
             /\ Under(Key(out_file), k) \/ Under(Key(trigger_file), k)
          \/ /\ k = Key(out_file) /\ Rank(pc[1]) > Rank("open_out")
             /\ Node(fs, k).kind = "file"
             /\ \/ Node(fs, k).data = <<>>
                \/ Rank(pc[1]) > Rank("close_out")
                   /\ IsListing(Node(fs, k).data, SubdirPaths(fs, base_dir))
          \/ /\ k = Key(trigger_file) /\ Rank(pc[1]) > Rank("open_trig")
             /\ Node(fs, k) = FileNode(<<>>)
    /\ \A k \in DOMAIN fs0 :
          DirName(k) = Key(base_dir) => Node(fs, k).kind = fs0[k].kind
    /\ Succeeded(1) =>
          /\ IsListing(Node(fs, out_file).data,
                       IF Key(trigger_file) = Key(out_file) THEN {} ELSE SubdirPaths(fs, base_dir))
          /\ trigger_file # <<>> => Node(fs, trigger_file) = FileNode(<<>>)

\* A successful run replaced a stale output file by an empty listing and a stale
\* trigger file by zero bytes.
C9_Witness ==
    /\ Succeeded(1) /\ Key(trigger_file) # Key(out_file) /\ subdirs[1] = <<>>
    /\ Node(fs0, out_file) = FileNode(Stale) /\ Node(fs0, trigger_file) = FileNode(Stale)

\* The listing of instance p: its target's subdirectories, sorted, one per line.
ListingOf(p) == TextOf(SubdirPaths(fs, args[p].directory))

\* C7, as stated: when two instances race on one output file, its final content
\* is the complete listing of exactly one of them, never a mixture.
C7_FinalIsOneListing ==
    (\A p \in Procs : Succeeded(p)) =>
        Node(fs, out_file).data \in {ListingOf(p) : p \in Procs}

\* C7, amended: the final content begins with the complete listing of one
\* instance (the last to write); what follows it, if anything, is the rest of the
\* other instance's longer listing from the same offset.
C7_FinalIsListingThenTail ==
    (\A p \in Procs : Succeeded(p)) =>
        \E p, q \in Procs :
            /\ p # q
            /\ Node(fs, out_file).data \in
                  { ListingOf(p),
                    ListingOf(p) \o SubSeq(ListingOf(q), Len(ListingOf(p)) + 1, Len(ListingOf(q))) }

\* Both instances have completed and the output file is a mixture of their listings.
C7_Witness ==
    /\ \A p \in Procs : Succeeded(p)
    /\ Node(fs, out_file).data \notin {ListingOf(p) : p \in Procs}

\* The scan itself never fails; the names found to be directories are enumerated
\* names, each once; the text written lists join(target, name) for exactly them.
C10_State ==
    /\ Failed(1) => pc[1] # "scan"
    /\ Range(checked[1]) \subseteq enumerated[1]
    /\ Cardinality(Range(checked[1])) = Len(checked[1])
    /\ Rank(pc[1]) > Rank("close_out") =>
          /\ Node(fs, out_file).kind = "file"
          /\ IsListing(Node(fs, out_file).data,
                       {PathJoin(base_dir, n) : n \in Range(checked[1])})

\* A name is recorded only when it is the entry under check and a directory at that
\* moment; the enumeration of a target that is no directory any more ends the run
\* with a non-zero status and the filesystem untouched.
C10_Step ==
    /\ checked'[1] # checked[1] =>
          /\ checked'[1] = Append(checked[1], Head(items[1]))
          /\ IsDir(fs, PathJoin(base_dir, Head(items[1])))
    /\ (/\ pc[1] = "listdir" /\ Running(1) /\ ~IsDir(fs, base_dir)
        /\ <<pc, status, items>>' # <<pc, status, items>>) =>
          /\ status'[1] = "exited" /\ exitcode'[1] # 0
          /\ pc'[1] = "listdir" /\ fs' = fs

\* C10: while another process changes the target during the scan, every path
\* written is join(target, name) for an enumerated name that was a directory at
\* its own check, none is written twice, a child's removal after the enumeration
\* does not abort the scan (the child is omitted), and the target's removal
\* between its check and its enumeration aborts the run before the output file is
\* opened.
C10_ScanUnderChanges == [](C10_State) /\ [][C10_Step]_vars

\* A run has completed with a listing although an entry it had enumerated was
\* removed before its check.
C10_Witness ==
    /\ Succeeded(1) /\ checked[1] # <<>>
    /\ \E n \in enumerated[1] : Node(fs, PathJoin(Key(base_dir), n)).kind = "none"

====

